---- MODULE Spec2Model ----
(***************************************************************************)
(* Model of the CinnamonCors plugin (src/src/main.ts): the constructor's   *)
(* normalisation of the options, the registration of one of two middleware *)
(* handlers in beforeRegisterControllers, and the handling of a request by *)
(* the registered handler.                                                 *)
(*                                                                         *)
(* JavaScript values are tagged records, so that values of different       *)
(* JavaScript types are never confused: undefined, a boolean, a string (a  *)
(* sequence of one-character strings, so that toLowerCase and join are     *)
(* computed character by character) and an array of strings.               *)
(***************************************************************************)
EXTENDS Naturals, Sequences, FiniteSets

VARIABLES
    config,      \* the `options` argument handed to the constructor
    options,     \* this.options, as the constructor left it
    inDevMode,   \* this.framework.inDevMode, the host's environment flag
    middleware,  \* the handler server.use() received: "none", "override", "policy"
    phase,       \* "constructed", "registered", "responded"
    request,     \* the request of the exchange handled last
    response,    \* ctx.response of that exchange: headers, status, body
    calls        \* what the handler called on ctx.response and next, in order

vars == <<config, options, inDevMode, middleware, phase, request, response, calls>>

----------------------------------------------------------------------------
(* Bounds of the model. *)

\* longest allowOrigins array that is configured
MaxOrigins == 2

----------------------------------------------------------------------------
(* JavaScript values. *)

Undefined == [undefined |-> TRUE]
Bool(b)   == [bool |-> b]
Str(s)    == [str |-> s]
Arr(a)    == [arr |-> a]

IsUndefined(v) == "undefined" \in DOMAIN v
IsBool(v)      == "bool" \in DOMAIN v
IsString(v)    == "str" \in DOMAIN v
IsArray(v)     == "arr" \in DOMAIN v

\* ToBoolean taking the empty array for falsy as well
Truthy_EmptyArrayFalsy(v) ==
    IF IsUndefined(v) THEN FALSE
    ELSE IF IsBool(v) THEN v.bool
    ELSE IF IsString(v) THEN v.str # <<>>
    ELSE v.arr # <<>>

\* ToBoolean: undefined and "" are falsy, every array (the empty one too) is truthy
Truthy(v) ==
    IF IsUndefined(v) THEN FALSE
    ELSE IF IsBool(v) THEN v.bool
    ELSE IF IsString(v) THEN v.str # <<>>
    ELSE TRUE

\* a ?? b: b only when a is undefined (or null), never for another falsy value
Coalesce(a, b) == IF IsUndefined(a) THEN b ELSE a

\* String.prototype.toLowerCase, on the letters the model uses
LowerChar(c) ==
    CASE c = "A" -> "a"
      [] c = "B" -> "b"
      [] c = "C" -> "c"
      [] c = "H" -> "h"
      [] OTHER -> c

ToLowerCase(s) == [i \in 1..Len(s) |-> LowerChar(s[i])]

\* Array.prototype.includes on an array of strings
Includes(a, s) == \E i \in 1..Len(a) : a[i] = s

\* Array.prototype.join
RECURSIVE Join(_, _)
Join(a, sep) ==
    IF a = <<>> THEN <<>>
    ELSE IF Len(a) = 1 THEN a[1]
    ELSE a[1] \o sep \o Join(Tail(a), sep)

\* all sequences over S of length at most n
RECURSIVE SeqsUpTo(_, _)
SeqsUpTo(S, n) ==
    IF n = 0 THEN {<<>>}
    ELSE LET shorter == SeqsUpTo(S, n - 1)
         IN  shorter \cup {Append(q, x) : q \in {r \in shorter : Len(r) = n - 1}, x \in S}

----------------------------------------------------------------------------
(* String literals of the source. *)

Star      == <<"*">>
AnyStr    == <<"a", "n", "y">>
TrueStr   == <<"t", "r", "u", "e">>
CommaSp   == <<",", " ">>
Empty     == <<>>

ACAC == "access-control-allow-credentials"
ACAO == "access-control-allow-origin"
ACAH == "access-control-allow-headers"
ACAM == "access-control-allow-methods"
ACEH == "access-control-expose-headers"

HeaderFields == {ACAC, ACAO, ACAH, ACAM, ACEH}

----------------------------------------------------------------------------
(* The inputs: option values and requests. *)

OriginA == <<"h", "/", "A">>
OriginB == <<"h", "/", "b">>
OriginNames == {OriginA, OriginB}

HeaderXA == <<"X", "-", "A">>
HeaderXB == <<"X", "-", "B">>

\* the arrays a header policy option is configured with: none, one and two
\* entries, and the two entries in both orders
HeaderLists == {<< >>, <<HeaderXA>>, <<HeaderXA, HeaderXB>>, <<HeaderXB, HeaderXA>>}

\* allowOrigins?: "*" | "any" | string[], and a string that is neither
AllowOriginsValues ==
    {Undefined, Str(Star), Str(AnyStr), Str(OriginA)}
        \cup {Arr(a) : a \in SeqsUpTo(OriginNames, MaxOrigins)}

\* allowHeaders?, allowMethods?, exposeHeaders?: "*" | "any" | string[]
HeaderPolicyValues ==
    {Undefined, Str(Star), Str(AnyStr), Str(HeaderXA)}
        \cup {Arr(a) : a \in HeaderLists}

\* allowCredentials?: true
AllowCredentialsValues == {Undefined, Bool(TRUE), Bool(FALSE)}

\* ignoreDevMode?: boolean
IgnoreDevModeValues == {Undefined, Bool(TRUE), Bool(FALSE)}

OptionObjects ==
    [allowCredentials : AllowCredentialsValues,
     allowOrigins     : AllowOriginsValues,
     allowHeaders     : HeaderPolicyValues,
     allowMethods     : HeaderPolicyValues,
     exposeHeaders    : HeaderPolicyValues,
     ignoreDevMode    : IgnoreDevModeValues]

\* the constructor's second argument: an options object, or none
Configs == {Undefined} \cup OptionObjects

\* a request: its Origin and Host headers, undefined when the header is absent
RequestOrigins ==
    {Undefined, Str(<<"H", "/", "A">>), Str(<<"h", "/", "b">>), Str(<<"h", "/", "c">>)}
RequestHosts == {Undefined, Str(<<"H", "/", "B">>)}
Requests == [Origin : RequestOrigins, Host : RequestHosts]

NoRequest == [Origin |-> Undefined, Host |-> Undefined]

----------------------------------------------------------------------------
(* The host: the request and the response of an exchange. *)

\* a get that yields undefined for a header the request lacks
RequestGet_Undefined(req, field) ==
    IF field = "Origin" THEN req.Origin ELSE req.Host

\* ctx.request.get(field): the header's value, "" when the request has none
RequestGet(req, field) ==
    LET v == IF field = "Origin" THEN req.Origin ELSE req.Host
    IN  IF IsUndefined(v) THEN Str(Empty) ELSE v

\* a response no handler has touched yet
FreshResponse ==
    [headers |-> [f \in HeaderFields |-> Undefined], status |-> 404, body |-> Undefined]

SetCall(field, val) == [op |-> "set", field |-> field, val |-> val]
NextCall == [op |-> "next", field |-> "", val |-> Empty]

\* a TypeError raised in the handler: (undefined).toLowerCase()
ThrowCall == [op |-> "throw", field |-> "", val |-> Empty]

\* what a handler gets done: its calls up to the first that throws
RECURSIVE UpToThrow(_)
UpToThrow(cs) ==
    IF cs = << >> THEN << >>
    ELSE IF Head(cs).op = "throw" THEN << Head(cs) >>
    ELSE << Head(cs) >> \o UpToThrow(Tail(cs))

\* ctx.response.set(field, val)
ResponseSet(res, field, val) == [res EXCEPT !.headers[field] = Str(val)]

\* the response after the calls cs were made on it, in order
RECURSIVE ApplyCalls(_, _)
ApplyCalls(res, cs) ==
    IF cs = <<>> THEN res
    ELSE ApplyCalls(
            IF Head(cs).op = "set" THEN ResponseSet(res, Head(cs).field, Head(cs).val)
            ELSE res,
            Tail(cs))

----------------------------------------------------------------------------
(* The plugin. *)

\* the constructor without the lower-casing of the allowOrigins entries
Constructor_KeepsCase(opts) ==
    IF IsUndefined(opts)
    THEN [allowCredentials |-> Undefined,
          allowOrigins     |-> Undefined,
          allowHeaders     |-> Undefined,
          allowMethods     |-> Undefined,
          exposeHeaders    |-> Undefined,
          ignoreDevMode    |-> Bool(FALSE)]
    ELSE [opts EXCEPT !.ignoreDevMode = IF @ = Bool(TRUE) THEN @ ELSE Bool(FALSE)]

\* constructor(framework, options?)
Constructor(opts) ==
    LET o1 == IF IsUndefined(opts)
              THEN [allowCredentials |-> Undefined,
                    allowOrigins     |-> Undefined,
                    allowHeaders     |-> Undefined,
                    allowMethods     |-> Undefined,
                    exposeHeaders    |-> Undefined,
                    ignoreDevMode    |-> Bool(FALSE)]
              ELSE [opts EXCEPT !.ignoreDevMode =
                        IF @ = Bool(TRUE) THEN @ ELSE Bool(FALSE)]
    IN  IF IsArray(o1.allowOrigins)
        THEN [o1 EXCEPT !.allowOrigins =
                Arr([i \in 1..Len(@.arr) |-> ToLowerCase(@.arr[i])])]
        ELSE o1

\* the getter without its test of ignoreDevMode
DevModeOverride_FlagOnly(opts, devMode) == devMode

\* get devModeOverride()
DevModeOverride(opts, devMode) == ~Truthy(opts.ignoreDevMode) /\ devMode

\* the override handler without its last header
OverrideHandler_NoExpose ==
    << [op |-> "set", field |-> "access-control-allow-credentials", val |-> <<"t", "r", "u", "e">>],
       [op |-> "set", field |-> "access-control-allow-origin", val |-> <<"*">>],
       [op |-> "set", field |-> "access-control-allow-headers", val |-> <<"*">>],
       [op |-> "set", field |-> "access-control-allow-methods", val |-> <<"*">>],
       [op |-> "next", field |-> "", val |-> << >>] >>

\* the handler registered when the override is active
OverrideHandler ==
    << SetCall(ACAC, TrueStr),
       SetCall(ACAO, Star),
       SetCall(ACAH, Star),
       SetCall(ACAM, Star),
       SetCall(ACEH, Star),
       NextCall >>

\* "*" | "any"
IsWildcard(v) == IsString(v) /\ v.str \in {Star, AnyStr}

\* the allowCredentials part testing for "is set" instead of "is truthy"
CredentialsCalls_WhenSet(opts) ==
    IF ~IsUndefined(opts.allowCredentials) THEN << SetCall(ACAC, TrueStr) >> ELSE << >>

\* the policy handler's allowCredentials part
CredentialsCalls(opts) ==
    IF Truthy(opts.allowCredentials) THEN << SetCall(ACAC, TrueStr) >> ELSE << >>

\* the allowOrigins part matching the request against a one-entry array too
OriginCalls_MatchesSingle(opts, req) ==
    LET ao == opts.allowOrigins
    IN  IF ~Truthy(ao) THEN << >>
        ELSE IF IsWildcard(ao) THEN << SetCall(ACAO, Star) >>
        ELSE IF IsString(ao) THEN << SetCall(ACAO, ao.str) >>
        ELSE IF Len(ao.arr) >= 1
        THEN LET got == Coalesce(RequestGet(req, "Origin"), RequestGet(req, "Host"))
                 requestOrigin == ToLowerCase(got.str)
             IN  IF ~IsString(got) THEN << ThrowCall >>
                 ELSE IF Includes(ao.arr, requestOrigin)
                 THEN << SetCall(ACAO, requestOrigin) >>
                 ELSE << >>
        ELSE << >>

\* the allowOrigins part setting the request's origin without looking it up
OriginCalls_EchoesRequest(opts, req) ==
    LET ao == opts.allowOrigins
    IN  IF ~Truthy(ao) THEN << >>
        ELSE IF IsWildcard(ao) THEN << SetCall(ACAO, Star) >>
        ELSE IF IsString(ao) THEN << SetCall(ACAO, ao.str) >>
        ELSE IF ~IsArray(ao) THEN << >>
        ELSE IF Len(ao.arr) = 1 THEN << SetCall(ACAO, ao.arr[1]) >>
        ELSE IF Len(ao.arr) > 1
        THEN LET got == Coalesce(RequestGet(req, "Origin"), RequestGet(req, "Host"))
                 requestOrigin == ToLowerCase(got.str)
             IN  IF ~IsString(got) THEN << ThrowCall >>
                 ELSE << SetCall(ACAO, requestOrigin) >>
        ELSE << >>

\* the policy handler's allowOrigins part
OriginCalls(opts, req) ==
    LET ao == opts.allowOrigins
    IN  IF ~Truthy(ao) THEN << >>
        ELSE IF IsWildcard(ao) THEN << SetCall(ACAO, Star) >>
        ELSE IF IsString(ao) THEN << SetCall(ACAO, ao.str) >>
        ELSE IF ~IsArray(ao) THEN << >>
        ELSE IF Len(ao.arr) = 1 THEN << SetCall(ACAO, ao.arr[1]) >>
        ELSE IF Len(ao.arr) > 1
        THEN LET got == Coalesce(RequestGet(req, "Origin"), RequestGet(req, "Host"))
                 requestOrigin == ToLowerCase(got.str)
             IN  IF ~IsString(got) THEN << ThrowCall >>
                 ELSE IF Includes(ao.arr, requestOrigin)
                 THEN << SetCall(ACAO, requestOrigin) >>
                 ELSE << >>
        ELSE << >>

\* the header value with the array joined by "," alone
PolicyValue_CommaOnly(v) ==
    IF IsWildcard(v) THEN Star
    ELSE IF IsString(v) THEN v.str
    ELSE Join(v.arr, <<",">>)

\* the value a header policy option gives its header
PolicyValue(v) ==
    IF IsWildcard(v) THEN Star
    ELSE IF IsString(v) THEN v.str
    ELSE Join(v.arr, CommaSp)

\* the policy handler's allowHeaders, allowMethods and exposeHeaders parts
HeaderPolicyCalls(v, field) ==
    IF Truthy(v) THEN << SetCall(field, PolicyValue(v)) >> ELSE << >>

\* the policy handler without the default it sets first
PolicyHandler_NoDefault(opts, req) ==
    UpToThrow(
        CredentialsCalls(opts)
            \o OriginCalls(opts, req)
            \o HeaderPolicyCalls(opts.allowHeaders, ACAH)
            \o HeaderPolicyCalls(opts.allowMethods, ACAM)
            \o HeaderPolicyCalls(opts.exposeHeaders, ACEH)
            \o << NextCall >>)

\* the policy handler calling next() before it sets the option headers
PolicyHandler_NextFirst(opts, req) ==
    UpToThrow(
        << SetCall(ACAO, Star), NextCall >>
            \o CredentialsCalls(opts)
            \o OriginCalls(opts, req)
            \o HeaderPolicyCalls(opts.allowHeaders, ACAH)
            \o HeaderPolicyCalls(opts.allowMethods, ACAM)
            \o HeaderPolicyCalls(opts.exposeHeaders, ACEH))

\* the handler registered when the override is not active
PolicyHandler(opts, req) ==
    UpToThrow(
        << SetCall(ACAO, Star) >>
            \o CredentialsCalls(opts)
            \o OriginCalls(opts, req)
            \o HeaderPolicyCalls(opts.allowHeaders, ACAH)
            \o HeaderPolicyCalls(opts.allowMethods, ACAM)
            \o HeaderPolicyCalls(opts.exposeHeaders, ACEH)
            \o << NextCall >>)

----------------------------------------------------------------------------
(* The state machine. *)

Init ==
    /\ config \in Configs
    /\ options = Constructor(config)
    /\ inDevMode \in BOOLEAN
    /\ middleware = "none"
    /\ phase = "constructed"
    /\ request = NoRequest
    /\ response = FreshResponse
    /\ calls = << >>

\* beforeRegisterControllers(): the host calls it once, before any request
BeforeRegisterControllers ==
    /\ phase = "constructed"
    /\ middleware' = IF DevModeOverride(options, inDevMode) THEN "override" ELSE "policy"
    /\ phase' = "registered"
    /\ UNCHANGED <<config, options, inDevMode, request, response, calls>>

\* the middleware reading devModeOverride anew for each request
HandleRequest_PerRequest(req) ==
    /\ phase = "registered"
    /\ LET cs == IF DevModeOverride(options, inDevMode) THEN OverrideHandler
                 ELSE PolicyHandler(options, req)
       IN  /\ calls' = cs
           /\ response' = ApplyCalls(FreshResponse, cs)
    /\ request' = req
    /\ phase' = "responded"
    /\ UNCHANGED <<config, options, inDevMode, middleware>>

\* a request passes through the registered middleware
HandleRequest(req) ==
    /\ phase = "registered"
    /\ LET cs == IF middleware = "override" THEN OverrideHandler
                 ELSE PolicyHandler(options, req)
       IN  /\ calls' = cs
           /\ response' = ApplyCalls(FreshResponse, cs)
    /\ request' = req
    /\ phase' = "responded"
    /\ UNCHANGED <<config, options, inDevMode, middleware>>

\* the exchange is over: the host sends the response and waits for the next request
ExchangeEnds ==
    /\ phase = "responded"
    /\ phase' = "registered"
    /\ request' = NoRequest
    /\ response' = FreshResponse
    /\ calls' = << >>
    /\ UNCHANGED <<config, options, inDevMode, middleware>>

Next ==
    \/ BeforeRegisterControllers
    \/ \E req \in Requests : HandleRequest(req)
    \/ ExchangeEnds

\* the host's flag changes between two exchanges, after the registration; the
\* handlers run to their next() call without a break, so a change at any
\* other moment is seen by the requests as one of these
DevModeChanges ==
    /\ phase = "registered"
    /\ inDevMode' = ~inDevMode
    /\ UNCHANGED <<config, options, middleware, phase, request, response, calls>>

\* the plugin under a host whose flag changes while requests are served
NextEnv ==
    \/ BeforeRegisterControllers
    \/ \E req \in Requests : HandleRequest(req)
    \/ ExchangeEnds
    \/ DevModeChanges

SpecEnv == Init /\ [][NextEnv]_vars

Spec == Init /\ [][Next]_vars

----------------------------------------------------------------------------
(* What the claims speak of. *)

\* the options as they were given: an option that was not given reads undefined
Given ==
    IF IsUndefined(config)
    THEN [allowCredentials |-> Undefined,
          allowOrigins     |-> Undefined,
          allowHeaders     |-> Undefined,
          allowMethods     |-> Undefined,
          exposeHeaders    |-> Undefined,
          ignoreDevMode    |-> Undefined]
    ELSE config

Responded == phase = "responded"

\* ignoreDevMode is false or unset, and the host reports development mode
OverrideActive == Given.ignoreDevMode # Bool(TRUE) /\ inDevMode
OverrideInactive == ~OverrideActive

Header(field) == response.headers[field]

LenientHeaders ==
    [f \in HeaderFields |-> IF f = ACAC THEN Str(TrueStr) ELSE Str(Star)]

\* two strings are equal up to letter case
EqualsIgnoringCase(a, b) ==
    /\ Len(a) = Len(b)
    /\ \A i \in 1..Len(a) : LowerChar(a[i]) = LowerChar(b[i])

\* allowOrigins was given as an array of more than one origin
SeveralOrigins == IsArray(Given.allowOrigins) /\ Len(Given.allowOrigins.arr) > 1

\* the request's origin as the documentation has it: Origin, else Host
DocumentedOrigin ==
    IF ~IsUndefined(request.Origin) THEN request.Origin ELSE request.Host

\* the header value v matches some entry of the configured array, up to case
MatchesAnEntry(v) ==
    /\ ~IsUndefined(v)
    /\ \E i \in 1..Len(Given.allowOrigins.arr) :
          EqualsIgnoringCase(Given.allowOrigins.arr[i], v.str)

----------------------------------------------------------------------------
\* C1: while the dev-mode override is active, every response carries the five
\* lenient headers, whatever the options and the request are.
C1_OverrideIsLenient ==
    (Responded /\ OverrideActive) => response.headers = LenientHeaders

C1_Witness ==
    /\ Responded /\ OverrideActive
    /\ IsArray(Given.allowOrigins) /\ Len(Given.allowOrigins.arr) = 1
    /\ IsUndefined(Given.allowCredentials)
    /\ IsArray(Given.allowHeaders)
    /\ ~IsUndefined(request.Origin)

\* C2: with ignoreDevMode true the override is never active: in development
\* mode too the response headers are those the policy handler produces from
\* the options and the request, and the lenient values are not forced.
C2_IgnoreDevModeEnforcesPolicy ==
    (Responded /\ Given.ignoreDevMode = Bool(TRUE)) =>
        /\ middleware = "policy"
        /\ response.headers =
              ApplyCalls(FreshResponse, PolicyHandler(Constructor(config), request)).headers
        /\ (~Truthy(Given.allowCredentials) => Header(ACAC) = Undefined)
        /\ (IsUndefined(Given.allowHeaders) => Header(ACAH) = Undefined)

C2_Witness ==
    /\ Responded /\ Given.ignoreDevMode = Bool(TRUE) /\ inDevMode
    /\ IsUndefined(Given.allowCredentials)
    /\ Header(ACAC) = Undefined

C4_OriginHeaderNotSet ==
    /\ (/\ Responded /\ OverrideInactive
        /\ \/ IsUndefined(Given.allowOrigins)
           \/ SeveralOrigins /\ ~MatchesAnEntry(DocumentedOrigin))
           => Header(ACAO) = Undefined
    /\ (Responded /\ IsUndefined(config) /\ ~inDevMode)
           => \A f \in HeaderFields : Header(f) = Undefined

\* C5 as stated: with the override inactive and allowOrigins an array of one
\* origin, Access-Control-Allow-Origin is that origin as it was configured.
C5_SingleOriginVerbatim ==
    (/\ Responded /\ OverrideInactive
     /\ IsArray(Given.allowOrigins) /\ Len(Given.allowOrigins.arr) = 1)
        => Header(ACAO) = Str(Given.allowOrigins.arr[1])

\* C5 as amended: with the override inactive and allowOrigins an array of one
\* origin, Access-Control-Allow-Origin is that origin in lower case, for every
\* request, whatever its Origin and Host headers are.
C5_SingleOriginLowerCased ==
    (/\ Responded /\ OverrideInactive
     /\ IsArray(Given.allowOrigins) /\ Len(Given.allowOrigins.arr) = 1)
        => Header(ACAO) = Str(ToLowerCase(Given.allowOrigins.arr[1]))

C5_Witness ==
    /\ Responded /\ OverrideInactive
    /\ IsArray(Given.allowOrigins) /\ Len(Given.allowOrigins.arr) = 1
    /\ ~IsUndefined(request.Origin)
    /\ ~EqualsIgnoringCase(request.Origin.str, Given.allowOrigins.arr[1])
    /\ Header(ACAO) = Str(ToLowerCase(Given.allowOrigins.arr[1]))

\* C6: with the override inactive and allowOrigins an array of several
\* origins, a request whose Origin equals a configured entry up to letter case
\* gets Access-Control-Allow-Origin set to that origin in lower case.
C6_OriginMatchIgnoresCase ==
    (/\ Responded /\ OverrideInactive
     /\ SeveralOrigins
     /\ MatchesAnEntry(request.Origin))
        => Header(ACAO) = Str(ToLowerCase(request.Origin.str))

C6_Witness ==
    /\ Responded /\ OverrideInactive
    /\ SeveralOrigins
    /\ ~IsUndefined(request.Origin)
    /\ \E i \in 1..Len(Given.allowOrigins.arr) :
          /\ EqualsIgnoringCase(Given.allowOrigins.arr[i], request.Origin.str)
          /\ Given.allowOrigins.arr[i] # request.Origin.str
          /\ Given.allowOrigins.arr[i] # ToLowerCase(Given.allowOrigins.arr[i])
    /\ Header(ACAO) = Str(ToLowerCase(request.Origin.str))

\* C7: with the override inactive and allowOrigins an array of several
\* origins, a request without an Origin header is matched by its Host header:
\* when the lower-cased Host is in the array, Access-Control-Allow-Origin is it.
C7_HostFallback ==
    (/\ Responded /\ OverrideInactive
     /\ SeveralOrigins
     /\ IsUndefined(request.Origin)
     /\ MatchesAnEntry(request.Host))
        => Header(ACAO) = Str(ToLowerCase(request.Host.str))

\* C8: with the override inactive, Access-Control-Allow-Credentials is true
\* exactly when allowCredentials is truthy, is absent when allowCredentials is
\* unset, and is never any other value.
C8_CredentialsIffTruthy ==
    (Responded /\ OverrideInactive) =>
        /\ (Header(ACAC) = Str(TrueStr)) <=> Truthy(Given.allowCredentials)
        /\ IsUndefined(Given.allowCredentials) => Header(ACAC) = Undefined
        /\ Header(ACAC) \in {Undefined, Str(TrueStr)}

C8_Witness ==
    /\ Responded /\ OverrideInactive
    /\ Given.allowCredentials = Bool(TRUE)
    /\ Header(ACAC) = Str(TrueStr)

\* the value C9 expects of a header policy option: nothing when unset, * for
\* "*" and "any", the entries with ", " between them for an array
ExpectedPolicyHeader(v) ==
    IF IsUndefined(v) THEN Undefined
    ELSE IF v \in {Str(<<"*">>), Str(<<"a", "n", "y">>)} THEN Str(<<"*">>)
    ELSE IF IsString(v) THEN v
    ELSE IF Len(v.arr) = 0 THEN Str(<< >>)
    ELSE IF Len(v.arr) = 1 THEN Str(v.arr[1])
    ELSE Str(v.arr[1] \o <<",", " ">> \o v.arr[2])

\* C9: with the override inactive, allowHeaders, allowMethods and exposeHeaders
\* each decide their own header, whatever the other options are: no header
\* when unset, * for "*" and "any", the entries joined with ", " in their
\* configured order for an array (["X-A","X-B"] gives "X-A, X-B").
C9_HeaderPoliciesIndependent ==
    (Responded /\ OverrideInactive) =>
        /\ Header(ACAH) = ExpectedPolicyHeader(Given.allowHeaders)
        /\ Header(ACAM) = ExpectedPolicyHeader(Given.allowMethods)
        /\ Header(ACEH) = ExpectedPolicyHeader(Given.exposeHeaders)
        /\ Given.allowHeaders = Arr(<< <<"X", "-", "A">>, <<"X", "-", "B">> >>)
              => Header(ACAH) = Str(<<"X", "-", "A", ",", " ", "X", "-", "B">>)

C9_Witness ==
    /\ Responded /\ OverrideInactive
    /\ Given.allowHeaders = Arr(<<HeaderXA, HeaderXB>>)
    /\ Given.allowMethods = Str(AnyStr)
    /\ IsUndefined(Given.exposeHeaders)
    /\ Header(ACAH) = Str(<<"X", "-", "A", ",", " ", "X", "-", "B">>)
    /\ Header(ACAM) = Str(Star)
    /\ Header(ACEH) = Undefined

\* C10: for every request, in both branches, the handler calls next() exactly
\* once and as the last thing it does, after every header it sets; whatever
\* else it calls sets one of the five headers, and the response's status and
\* body are as the handler found them.
C10_NextOnceAndLast ==
    Responded =>
        /\ Len(calls) >= 1
        /\ calls[Len(calls)].op = "next"
        /\ \A i \in 1..(Len(calls) - 1) :
              calls[i].op = "set" /\ calls[i].field \in HeaderFields
        /\ response.status = FreshResponse.status
        /\ response.body = FreshResponse.body

C10_Witness ==
    /\ Responded
    /\ middleware = "policy"
    /\ Len(calls) = 6
    /\ calls[6].op = "next"

\* the headers the configured policies give the request of the exchange
PolicyHeaders ==
    ApplyCalls(FreshResponse, PolicyHandler(Constructor(config), request)).headers

\* C11 as stated: under a flag that changes after the registration, a request
\* gets the lenient headers when ignoreDevMode is not true and the flag reports
\* development mode as the request is handled, and the policies' headers when
\* not. (DevModeChanges does not act between the handling of a request and the
\* end of its exchange, so in a responded state the flag is the one the
\* request was handled under.)
C11_OverrideTestedPerRequest ==
    Responded =>
        response.headers = IF OverrideActive THEN LenientHeaders ELSE PolicyHeaders

\* C11 as amended: the override test is made once, as the middleware is
\* registered: the handler registered is the lenient one exactly when
\* ignoreDevMode is not true and the flag reports development mode at the
\* registration, the registered handler never changes afterwards, and every
\* request gets the headers of the registered handler, whatever the flag
\* reports as the request is handled.
C11_OverrideTestedAtRegistration ==
    [][/\ (phase = "constructed" /\ phase' = "registered")
            => (middleware' = "override" <=> OverrideActive)
       /\ phase # "constructed" => middleware' = middleware
       /\ (phase = "registered" /\ phase' = "responded")
            => response'.headers =
                  IF middleware = "override" THEN LenientHeaders
                  ELSE ApplyCalls(FreshResponse,
                                  PolicyHandler(Constructor(config), request')).headers
      ]_vars

\* a request handled by the policy handler while the flag reports development
\* mode and ignoreDevMode is not true: the flag changed after the registration
C11_Witness ==
    /\ Responded
    /\ middleware = "policy"
    /\ OverrideActive
    /\ IsUndefined(Given.allowCredentials)
    /\ Header(ACAC) = Undefined

\* the handler raised no error and reached the next handler
ReachedNext ==
    /\ \A i \in 1..Len(calls) : calls[i].op # "throw"
    /\ \E i \in 1..Len(calls) : calls[i].op = "next"

EmptyArray == Arr(<< >>)

\* C12 as stated: with the override inactive, an empty array given for an
\* option is as the option unset: allowHeaders, allowMethods and exposeHeaders
\* emit no header, allowOrigins leaves its header at the default, and no
\* error is raised.
C12_EmptyArrayAsUnset ==
    (Responded /\ OverrideInactive) =>
        /\ Given.allowOrigins = EmptyArray => Header(ACAO) = Str(Star)
        /\ Given.allowHeaders = EmptyArray => Header(ACAH) = Undefined
        /\ Given.allowMethods = EmptyArray => Header(ACAM) = Undefined
        /\ Given.exposeHeaders = EmptyArray => Header(ACEH) = Undefined
        /\ ReachedNext

\* C12 as amended: with the override inactive, an empty array given for
\* allowOrigins leaves Access-Control-Allow-Origin at its default *, an empty
\* array given for allowHeaders, allowMethods or exposeHeaders sets that
\* header to the empty string, and no error is raised.
C12_EmptyArrayEmitsEmptyHeader ==
    (Responded /\ OverrideInactive) =>
        /\ Given.allowOrigins = EmptyArray => Header(ACAO) = Str(Star)
        /\ Given.allowHeaders = EmptyArray => Header(ACAH) = Str(<< >>)
        /\ Given.allowMethods = EmptyArray => Header(ACAM) = Str(<< >>)
        /\ Given.exposeHeaders = EmptyArray => Header(ACEH) = Str(<< >>)
        /\ ReachedNext

C12_Witness ==
    /\ Responded /\ OverrideInactive
    /\ Given.allowOrigins = EmptyArray
    /\ Given.allowHeaders = EmptyArray
    /\ IsUndefined(Given.allowMethods)
    /\ Header(ACAO) = Str(Star)
    /\ Header(ACAH) = Str(<< >>)
    /\ Header(ACAM) = Undefined
    /\ ReachedNext

\* C13: handling a request raises no error, whatever the options and the
\* request are; with the override inactive and allowOrigins an array of
\* several origins, a request with neither an Origin nor a Host header leaves
\* Access-Control-Allow-Origin at its default and reaches the next handler.
C13_NeverRaises ==
    Responded =>
        /\ ReachedNext
        /\ (/\ OverrideInactive
            /\ SeveralOrigins
            /\ IsUndefined(request.Origin)
            /\ IsUndefined(request.Host))
               => Header(ACAO) = Str(Star)

C13_Witness ==
    /\ Responded /\ OverrideInactive
    /\ SeveralOrigins
    /\ IsUndefined(request.Origin)
    /\ IsUndefined(request.Host)
    /\ Header(ACAO) = Str(Star)
    /\ calls[Len(calls)].op = "next"

\* the values the configuration allows Access-Control-Allow-Origin to take:
\* the configured string itself, or a configured array entry in lower case
ConfiguredOrigins ==
    IF IsString(Given.allowOrigins) THEN {Given.allowOrigins}
    ELSE IF IsArray(Given.allowOrigins)
    THEN {Str(ToLowerCase(Given.allowOrigins.arr[i])) :
              i \in 1..Len(Given.allowOrigins.arr)}
    ELSE {}

\* C14: an origin that was not configured is never echoed: in every response
\* Access-Control-Allow-Origin is * or a value of the configured allowOrigins,
\* whatever the request's Origin and Host are, and the stored options stay as
\* the constructor left them.
C14_OnlyConfiguredOrigins ==
    /\ Responded => Header(ACAO) \in ({Str(Star)} \cup ConfiguredOrigins)
    /\ options.allowOrigins =
          IF IsArray(Given.allowOrigins)
          THEN Arr([i \in 1..Len(Given.allowOrigins.arr) |->
                       ToLowerCase(Given.allowOrigins.arr[i])])
          ELSE Given.allowOrigins
    /\ \A k \in {"allowCredentials", "allowHeaders", "allowMethods", "exposeHeaders"} :
          options[k] = Given[k]
    /\ options.ignoreDevMode = Bool(Given.ignoreDevMode = Bool(TRUE))

\* a request whose origin is not configured, and one whose origin is
C14_Witness ==
    /\ Responded /\ OverrideInactive
    /\ SeveralOrigins
    /\ ~IsUndefined(request.Origin)
    /\ ~MatchesAnEntry(request.Origin)
    /\ Header(ACAO) # Str(ToLowerCase(request.Origin.str))
    /\ Header(ACAO) = Str(Star)

====
